---- MODULE Spec2Model ----
\* Model of src/main.py: the SpeechRecognitionBot handlers
\* process_audio_message / process_video_note, the stages they call
\* (download_file, convert_to_wav, extract_audio_from_video, recognize_speech,
\* combine_results, cleanup_files) and the temporary files they leave on disk.
EXTENDS Integers, Sequences, FiniteSets, TLC

\* ---------------------------------------------------------------- bounds
\* number of distinct temporary file names tempfile can hand out
NumNames == 2
\* longest trimmed transcript a remote provider returns
MaxTextLen == 11
\* longest run of surrounding whitespace in a remote transcript
MaxPad == 1

\* ------------------------------------------------------------- constants
\* telebot.TeleBot(token) runs handlers on its default pool of worker threads
NumThreads == 2

Threads == 1..NumThreads
Names == 1..NumNames

\* ----------------------------------------------------------------- paths
\* a path is <<name, extension>>; '<input>.wav' keeps the name of its input
None == <<0, "none">>
Unbound == <<0, "unbound">>
Ogg(n) == <<n, "ogg">>
WavOf(p) == <<p[1], "wav">>
Paths == Names \X {"ogg", "wav"}

\* owner of a path on disk: -1 absent, 0 left behind by a finished request,
\* t > 0 written by the request thread t is handling
Absent == -1
Orphan == 0

\* ----------------------------------------------------------------- texts
\* a text is known by where it comes from and by its length; pad is the
\* leading/trailing whitespace that str.strip() removes
NoText == [src |-> "none", lang |-> "none", idx |-> 0, core |-> 0, pad |-> 0]
RemoteText(core, pad) ==
    [src |-> "remote", lang |-> "none", idx |-> 0, core |-> core, pad |-> pad]
Strip(t) == [t EXCEPT !.pad = 0]
TextLen(t) == t.core + t.pad
Truthy(t) == t.src # "none" /\ TextLen(t) > 0

\* self.languages, in insertion order, after the automatic attempt
Order == <<"auto", "uk", "ru", "en">>

\* label of a cascade entry: 'Автоматично' or self.languages[lang_code]
LanguageName(lang) ==
    CASE lang = "auto" -> "Avtomatychno"
      [] lang = "uk" -> "Ukrainska"
      [] lang = "ru" -> "Rosiiska"
      [] lang = "en" -> "Anhliiska"

\* recognize_with_alternative_api: one canned text per language
RecognizeWithAlternativeApi(lang) ==
    [src |-> "alt", lang |-> lang, idx |-> 0, pad |-> 0,
     core |-> CASE lang = "uk" -> 138
                [] lang = "ru" -> 138
                [] lang = "en" -> 147
                [] OTHER -> 108]

\* the three canned texts per language of recognize_speech_locally
LocalTexts(lang) ==
    CASE lang = "uk" -> <<77, 66, 72>>
      [] lang = "ru" -> <<74, 68, 70>>
      [] lang = "en" -> <<70, 87, 81>>
      [] OTHER -> <<65, 63, 56>>

\* recognize_speech_locally: random.choice(texts) picks entry i
RecognizeSpeechLocally(lang, i) ==
    [src |-> "local", lang |-> lang, idx |-> i, pad |-> 0,
     core |-> LocalTexts(lang)[i]]

\* the placeholder recognize_speech returns when nothing was accepted
Placeholder ==
    [src |-> "placeholder", lang |-> "none", idx |-> 0, core |-> 389, pad |-> 0]

\* ------------------------------------------------- remote provider replies
\* transcript lengths around the two thresholds (5 and 10) of the code; a
\* transcript at a threshold, and the longest one, also come with surrounding
\* whitespace
TextLens == {0, 5, 6, 10, MaxTextLen}
ResponseKinds ==
    {"timeout", "status503", "status401", "badjson", "nokey", "text"}
Response(kind, core, pad) == [kind |-> kind, core |-> core, pad |-> pad]
Responses ==
    {Response(k, 0, 0) : k \in ResponseKinds \ {"text"}}
    \cup {Response("text", c, 0) : c \in TextLens}
    \cup {Response("text", c, MaxPad) : c \in {5, 10, MaxTextLen}}
\* open(audio_path) fails before any request is sent
OpenFails == Response("openfail", 0, 0)

\* the length test of line 153 never passing: every reply goes on to the
\* alternative service
WhisperKeepsMutant(text) ==
    FALSE
\* line 153: if text and len(text) > 5
WhisperKeeps(text) ==
    Truthy(text) /\ TextLen(text) > 5

\* recognize_with_whisper_free: the text it returns for a provider reply
RecognizeWithWhisperFree(resp, lang) ==
    CASE resp.kind = "text" /\ WhisperKeeps(Strip(RemoteText(resp.core, resp.pad))) ->
            Strip(RemoteText(resp.core, resp.pad))
      [] resp.kind \in {"status503", "status401", "timeout"} -> NoText
      [] OTHER -> RecognizeWithAlternativeApi(lang)

\* which functions one call of recognize_with_whisper_free enters
WhisperCalls(resp, lang) ==
    IF RecognizeWithWhisperFree(resp, lang).src = "alt"
    THEN <<(<<"whisper", lang>>), (<<"alternative", lang>>)>>
    ELSE <<(<<"whisper", lang>>)>>

\* the acceptance test without its length threshold: if text
AcceptsMutant(text) ==
    Truthy(text)
\* lines 236 and 251: if text and len(text.strip()) > 10
Accepts(text) ==
    Truthy(text) /\ TextLen(Strip(text)) > 10

\* lines 247-249: inside the language loop an empty text falls back to
\* recognize_speech_locally
UsesLocalFallback(i, text) ==
    i > 1 /\ ~Truthy(text)

\* the cascade without its else branch and without its break
CascadeContinuesMutant(i, text) ==
    i < Len(Order)
\* the cascade giving up as soon as a call returned nothing
CascadeAbortsMutant(i, text) ==
    i < Len(Order) /\ ~Accepts(text) /\ Truthy(text)
\* the else branch of line 239 and the break of line 255
CascadeContinues(i, text) ==
    i < Len(Order) /\ ~Accepts(text)

\* lines 262-279: an empty dict is replaced by the placeholder entry
FinalResults(results) ==
    IF results = <<>> THEN <<(<<"Rezultat", Placeholder>>)>> ELSE results

\* combine_results: the message shown for a results dict
CombineResults(results) ==
    IF results = <<>>
    THEN [msg |-> "not_recognized", entries |-> <<>>]
    ELSE [msg |-> "result", entries |-> results]

StatusMessage(m) == [msg |-> m, entries |-> <<>>]

\* ------------------------------------------------- download and transcode
DownloadOutcomes == {"lookup_failed", "download_failed", "no_name", "write_failed", "ok"}

\* line 93: the temporary file exists from NamedTemporaryFile(delete=False) on
DownloadCreatesFile(outcome) == outcome \in {"write_failed", "ok"}

\* download_file: the name on success, None from the except clause
DownloadFile(outcome, n) ==
    IF outcome = "ok" THEN Ogg(n) ELSE None

FfmpegOutcomes == {"exit0", "nonzero", "timeout", "oserror"}

\* convert_to_wav: output_path on exit code 0, else None
ConvertToWav(outcome, input_path) ==
    IF outcome = "exit0" THEN WavOf(input_path) ELSE None

\* extract_audio_from_video: audio_path on exit code 0, else None
ExtractAudioFromVideo(outcome, video_path) ==
    IF outcome = "exit0" THEN WavOf(video_path) ELSE None

\* os.path.exists(path) on disk d
Exists(p, d) == p \in Paths /\ d[p] # Absent

\* line 446: if file_path and os.path.exists(file_path), for the argument
\* list files: the positions whose file os.unlink is called on
Present(files, d) ==
    {i \in DOMAIN files : files[i] # None /\ Exists(files[i], d)}

\* which calls of os.unlink within one cleanup_files call raise
UnlinkCodes == {"none", "first", "second", "both"}
UnlinkFails(code) ==
    CASE code = "first" -> {1}
      [] code = "second" -> {2}
      [] code = "both" -> {1, 2}
      [] OTHER -> {}

\* the loop with one try around it instead of one per file: the first
\* failing unlink ends the call
CleanupFilesMutant(files, d, fails) ==
    {files[i] : i \in {j \in Present(files, d) :
                          \A k \in Present(files, d) : k <= j => k \notin fails}}
\* cleanup_files(*files): the paths it removes when the unlink calls at the
\* positions in fails raise
CleanupFiles(files, d, fails) ==
    {files[i] : i \in Present(files, d) \ fails}

\* what one call of cleanup_files was given, found, failed on and removed
CleanupCall(files, d, fails) ==
    [files |-> files,
     present |-> {files[i] : i \in Present(files, d)},
     failed |-> {files[i] : i \in Present(files, d) \cap fails},
     gone |-> CleanupFiles(files, d, fails)]

\* one entry of the record of what the outside world answered a handler
Input(tag, val, flag, resp) == [tag |-> tag, val |-> val, flag |-> flag, resp |-> resp]
NoResp == Response("none", 0, 0)

VARIABLES req, disk

vars == <<req, disk>>

\* -------------------------------------------------------- request records
\* the locals of one handler call plus what the call has done so far
IdleReq ==
    [pc |-> "idle", kind |-> "none", short |-> FALSE,
     temp_file |-> Unbound, wav_file |-> Unbound,
     results |-> <<>>, lang_idx |-> 0, accepted |-> 0,
     exc |-> FALSE, escaped |-> FALSE,
     delivered |-> StatusMessage("none"),
     invoked |-> <<>>, stages |-> <<>>, outs |-> <<>>, inputs |-> <<>>,
     created |-> {}, cleaned |-> {}, calls |-> <<>>, raisedAfterFile |-> FALSE]

Init ==
    /\ req = [t \in Threads |-> IdleReq]
    /\ disk = [p \in Paths |-> Absent]

FreeNames == {n \in Names : disk[Ogg(n)] = Absent}

\* the handler without its check of the download result
AfterDownloadMutant(temp_file) ==
    "edit_stage2"
\* line 310 / 371: if not temp_file: report and return
AfterDownload(temp_file) ==
    IF temp_file = None THEN "edit_fetch_failed" ELSE "edit_stage2"

\* the handler without its check of the transcoder result
AfterTranscodeMutant(wav_file) ==
    "edit_stage3"
\* line 326 / 387: if not wav_file: report and return
AfterTranscode(wav_file) ==
    IF wav_file = None THEN "edit_tc_failed" ELSE "edit_stage3"

\* the outcome of a messaging call is part of what the handler was answered
Answered(r, ok) == [r EXCEPT !.inputs = Append(@, Input("message", "none", ok, NoResp))]

\* an exception raised inside the try block reaches the except clause
Raised(r) ==
    [r EXCEPT !.pc = "except", !.raisedAfterFile = @ \/ r.created # {}]

\* a message arrives and a worker thread enters its handler
Start(t, kind, short) ==
    /\ req[t].pc = "idle"
    /\ req' = [req EXCEPT ![t] =
            [IdleReq EXCEPT !.pc = "reply", !.kind = kind, !.short = short,
                            !.inputs = <<Input("start", kind, short, NoResp)>>]]
    /\ UNCHANGED disk

\* bot.reply_to(message, "Завантаження ..."): line 302 (outside the try) / 367
Reply(t, ok) ==
    LET r == Answered(req[t], ok) IN
    /\ r.pc = "reply"
    /\ req' = [req EXCEPT ![t] =
            IF r.kind = "audio"
            THEN IF ok THEN [r EXCEPT !.pc = "download", !.temp_file = None, !.wav_file = None]
                 ELSE [r EXCEPT !.pc = "done", !.escaped = TRUE]
            ELSE IF ok THEN [r EXCEPT !.pc = "download"] ELSE Raised(r)]
    /\ UNCHANGED disk

\* temp_file = self.download_file(file_id)
Download(t, outcome, n) ==
    LET r == req[t]
        ret == DownloadFile(outcome, n)
    IN
    /\ r.pc = "download"
    /\ (outcome = "no_name") = (FreeNames = {})
    /\ n \in FreeNames \cup {0}
    /\ DownloadCreatesFile(outcome) = (n # 0)
    /\ disk' = IF DownloadCreatesFile(outcome) THEN [disk EXCEPT ![Ogg(n)] = t] ELSE disk
    /\ req' = [req EXCEPT ![t] =
            [r EXCEPT !.pc = AfterDownload(ret), !.temp_file = ret,
                      !.stages = Append(@, "fetch"),
                      !.outs = Append(@, IF ret = None THEN "none" ELSE "ok"),
                      !.inputs = Append(@, Input("download", outcome, FALSE, NoResp)),
                      !.created = IF DownloadCreatesFile(outcome) THEN @ \cup {Ogg(n)} ELSE @]]

\* edit_message_text("Помилка завантаження ..."); return
EditFetchFailed(t, ok) ==
    LET r == Answered(req[t], ok) IN
    /\ r.pc = "edit_fetch_failed"
    /\ req' = [req EXCEPT ![t] =
            IF ok THEN [r EXCEPT !.pc = "finally", !.delivered = StatusMessage("fetch_failed")]
            ELSE Raised(r)]
    /\ UNCHANGED disk

\* edit_message_text("Конвертація ..." / "Видобуток аудіо ...")
EditStage2(t, ok) ==
    LET r == Answered(req[t], ok) IN
    /\ r.pc = "edit_stage2"
    /\ req' = [req EXCEPT ![t] = IF ok THEN [r EXCEPT !.pc = "transcode"] ELSE Raised(r)]
    /\ UNCHANGED disk

\* wav_file = self.convert_to_wav(temp_file) / self.extract_audio_from_video(temp_video)
Transcode(t, outcome, wrote) ==
    LET r == req[t]
        ret == IF r.kind = "audio" THEN ConvertToWav(outcome, r.temp_file)
               ELSE ExtractAudioFromVideo(outcome, r.temp_file)
        out == WavOf(r.temp_file)
    IN
    /\ r.pc = "transcode"
    /\ outcome = "exit0" => wrote
    /\ outcome = "oserror" => ~wrote
    /\ ~Exists(r.temp_file, disk) => outcome \in {"nonzero", "oserror"} /\ ~wrote
    /\ disk' = IF wrote THEN [disk EXCEPT ![out] = t] ELSE disk
    /\ req' = [req EXCEPT ![t] =
            [r EXCEPT !.pc = AfterTranscode(ret), !.wav_file = ret,
                      !.stages = Append(@, "transcode"),
                      !.outs = Append(@, IF ret = None THEN "none" ELSE "ok"),
                      !.inputs = Append(@, Input("ffmpeg", outcome, wrote, NoResp)),
                      !.created = IF wrote THEN @ \cup {out} ELSE @]]

\* edit_message_text("Помилка конвертації ..." / "Помилка видобутку ...")
EditTranscodeFailed(t, ok) ==
    LET r == Answered(req[t], ok) IN
    /\ r.pc = "edit_tc_failed"
    /\ req' = [req EXCEPT ![t] =
            IF ok
            THEN [r EXCEPT !.pc = IF r.kind = "video" THEN "cleanup_early" ELSE "finally",
                           !.delivered = StatusMessage("convert_failed")]
            ELSE Raised(r)]
    /\ UNCHANGED disk

\* line 393: self.cleanup_files(temp_video); return
CleanupEarly(t, f) ==
    LET r == req[t]
        files == <<r.temp_file>>
        gone == CleanupFiles(files, disk, UnlinkFails(f))
    IN
    /\ r.pc = "cleanup_early"
    /\ UnlinkFails(f) \subseteq Present(files, disk)
    /\ disk' = [p \in Paths |-> IF p \in gone THEN Absent ELSE disk[p]]
    /\ req' = [req EXCEPT ![t] =
            [r EXCEPT !.pc = "finally", !.cleaned = @ \cup ({r.temp_file} \cap Paths),
                      !.calls = Append(@, CleanupCall(files, disk, UnlinkFails(f))),
                      !.inputs = Append(@, Input("unlink", f, FALSE, NoResp))]]

\* edit_message_text("Аналіз мови ..." / "Розпізнавання мови з відео ...")
EditStage3(t, ok) ==
    LET r == Answered(req[t], ok) IN
    /\ r.pc = "edit_stage3"
    /\ req' = [req EXCEPT ![t] =
            IF ok THEN [r EXCEPT !.pc = "recognize", !.lang_idx = 1] ELSE Raised(r)]
    /\ UNCHANGED disk

\* recognize_speech: one cascade entry (the automatic attempt, then one
\* pass of the language loop); the last entry also builds the return value
Recognize(t, resp, c) ==
    LET r == req[t]
        i == r.lang_idx
        lang == Order[i]
        eff == IF Exists(r.wav_file, disk) THEN resp ELSE OpenFails
        remote == RecognizeWithWhisperFree(eff, lang)
        local == UsesLocalFallback(i, remote)
        text == IF local THEN RecognizeSpeechLocally(lang, c) ELSE remote
        res == IF Accepts(text) THEN Append(r.results, <<LanguageName(lang), text>>)
               ELSE r.results
        cont == CascadeContinues(i, text)
    IN
    /\ r.pc = "recognize"
    /\ req' = [req EXCEPT ![t] =
            [r EXCEPT !.pc = IF cont THEN "recognize" ELSE "deliver",
                      !.lang_idx = IF cont THEN i + 1 ELSE i,
                      !.results = IF cont THEN res ELSE FinalResults(res),
                      !.accepted = IF @ = 0 /\ Accepts(text) THEN i ELSE @,
                      !.invoked = @ \o WhisperCalls(eff, lang)
                                    \o (IF local THEN <<(<<"local", lang>>)>> ELSE <<>>),
                      !.inputs = Append(@, Input("provider", lang, FALSE, eff)),
                      !.stages = IF i = 1 THEN Append(@, "recognize") ELSE @]]
    /\ UNCHANGED disk

\* combined_text = self.combine_results(results); edit_message_text(combined_text)
Deliver(t, ok) ==
    LET r == Answered(req[t], ok) IN
    /\ r.pc = "deliver"
    /\ req' = [req EXCEPT ![t] =
            IF ok
            THEN [r EXCEPT !.pc = "finally", !.delivered = CombineResults(r.results),
                           !.stages = Append(@, "deliver")]
            ELSE [Raised(r) EXCEPT !.stages = Append(@, "deliver")]]
    /\ UNCHANGED disk

\* except Exception: report the error (edit_message_text / reply_to)
Except(t, ok) ==
    LET r == Answered(req[t], ok) IN
    /\ r.pc = "except"
    /\ req' = [req EXCEPT ![t] =
            IF ok THEN [r EXCEPT !.pc = "finally", !.delivered = StatusMessage("error")]
            ELSE [r EXCEPT !.pc = "finally", !.exc = TRUE]]
    /\ UNCHANGED disk

\* finally: self.cleanup_files(temp_file, wav_file); reading a local that was
\* never assigned raises UnboundLocalError before cleanup_files is entered
Finally(t, f) ==
    LET r == [req[t] EXCEPT !.inputs = Append(@, Input("unlink", f, FALSE, NoResp))]
        files == <<r.temp_file, r.wav_file>>
        args == {r.temp_file, r.wav_file}
        gone == CleanupFiles(files, disk, UnlinkFails(f))
    IN
    /\ r.pc = "finally"
    /\ IF Unbound \in args
       THEN /\ f = "none"
            /\ req' = [req EXCEPT ![t] = [r EXCEPT !.pc = "done", !.escaped = TRUE]]
            /\ disk' = disk
       ELSE /\ UnlinkFails(f) \subseteq Present(files, disk)
            /\ req' = [req EXCEPT ![t] =
                    [r EXCEPT !.pc = "done", !.escaped = r.exc,
                              !.cleaned = @ \cup (args \cap Paths),
                              !.calls = Append(@, CleanupCall(files, disk, UnlinkFails(f)))]]
            /\ disk' = [p \in Paths |-> IF p \in gone THEN Absent ELSE disk[p]]

\* the handler has returned; the worker thread waits for the next message
Finish(t) ==
    /\ req[t].pc = "done"
    /\ req' = [req EXCEPT ![t] = IdleReq]
    /\ disk' = [p \in Paths |-> IF disk[p] = t THEN Orphan ELSE disk[p]]

\* Spec follows one worker thread that handles one message after another;
\* every os.unlink succeeds (SpecUnlink lets them fail)
Worker == CHOOSE t \in Threads : \A u \in Threads : t <= u

Next ==
    \/ \E kind \in {"audio", "video"}, short \in BOOLEAN : Start(Worker, kind, short)
    \/ \E ok \in BOOLEAN : Reply(Worker, ok)
    \/ \E outcome \in DownloadOutcomes, n \in Names \cup {0} : Download(Worker, outcome, n)
    \/ \E ok \in BOOLEAN : EditFetchFailed(Worker, ok)
    \/ \E ok \in BOOLEAN : EditStage2(Worker, ok)
    \/ \E outcome \in FfmpegOutcomes, wrote \in BOOLEAN : Transcode(Worker, outcome, wrote)
    \/ \E ok \in BOOLEAN : EditTranscodeFailed(Worker, ok)
    \/ CleanupEarly(Worker, "none")
    \/ \E ok \in BOOLEAN : EditStage3(Worker, ok)
    \/ \E resp \in Responses, c \in 1..3 : Recognize(Worker, resp, c)
    \/ \E ok \in BOOLEAN : Deliver(Worker, ok)
    \/ \E ok \in BOOLEAN : Except(Worker, ok)
    \/ Finally(Worker, "none")
    \/ Finish(Worker)

Spec == Init /\ [][Next]_vars


\* ------------------------------------------------ two runs, same answers
\* SpecTwice runs the pipeline twice on the same message: thread 1 handles it
\* first, then thread 2 handles it again and is answered exactly as thread 1
\* was (the same download, ffmpeg, provider, messaging and unlink outcomes);
\* in these runs every os.unlink succeeds
First ==
    /\ req[2].pc = "idle"
    /\ \/ \E kind \in {"audio", "video"}, short \in BOOLEAN : Start(1, kind, short)
       \/ \E ok \in BOOLEAN : Reply(1, ok)
       \/ \E outcome \in DownloadOutcomes, n \in Names \cup {0} : Download(1, outcome, n)
       \/ \E ok \in BOOLEAN : EditFetchFailed(1, ok)
       \/ \E ok \in BOOLEAN : EditStage2(1, ok)
       \/ \E outcome \in FfmpegOutcomes, wrote \in BOOLEAN : Transcode(1, outcome, wrote)
       \/ \E ok \in BOOLEAN : EditTranscodeFailed(1, ok)
       \/ CleanupEarly(1, "none")
       \/ \E ok \in BOOLEAN : EditStage3(1, ok)
       \/ \E resp \in Responses, c \in 1..3 : Recognize(1, resp, c)
       \/ \E ok \in BOOLEAN : Deliver(1, ok)
       \/ \E ok \in BOOLEAN : Except(1, ok)
       \/ Finally(1, "none")

Second ==
    /\ req[1].pc = "done"
    /\ Len(req[2].inputs) < Len(req[1].inputs)
    /\ LET e == req[1].inputs[Len(req[2].inputs) + 1] IN
       \/ e.tag = "start" /\ Start(2, e.val, e.flag)
       \/ e.tag = "download" /\ \E n \in Names \cup {0} : Download(2, e.val, n)
       \/ e.tag = "ffmpeg" /\ Transcode(2, e.val, e.flag)
       \/ e.tag = "provider" /\ \E c \in 1..3 : Recognize(2, e.resp, c)
       \/ e.tag = "unlink" /\ CleanupEarly(2, e.val)
       \/ e.tag = "unlink" /\ Finally(2, e.val)
       \/ /\ e.tag = "message"
          /\ \/ Reply(2, e.flag)
             \/ EditFetchFailed(2, e.flag)
             \/ EditStage2(2, e.flag)
             \/ EditTranscodeFailed(2, e.flag)
             \/ EditStage3(2, e.flag)
             \/ Deliver(2, e.flag)
             \/ Except(2, e.flag)

NextTwice == First \/ Second

SpecTwice == Init /\ [][NextTwice]_vars

\* ------------------------------------------------- two threads at once
\* SpecConc lets both worker threads of the pool handle messages at the same
\* time, their steps interleaved in any order. Messaging calls succeed and the
\* provider answers with a long transcript; downloads and ffmpeg may fail.
NextConc ==
    \E t \in Threads :
        \/ \E kind \in {"audio", "video"} : Start(t, kind, FALSE)
        \/ Reply(t, TRUE)
        \/ \E outcome \in {"lookup_failed", "no_name", "ok"}, n \in Names \cup {0} :
               Download(t, outcome, n)
        \/ EditFetchFailed(t, TRUE)
        \/ EditStage2(t, TRUE)
        \/ \E outcome \in {"exit0", "nonzero"}, wrote \in BOOLEAN : Transcode(t, outcome, wrote)
        \/ EditTranscodeFailed(t, TRUE)
        \/ CleanupEarly(t, "none")
        \/ EditStage3(t, TRUE)
        \/ Recognize(t, Response("text", MaxTextLen, 0), 1)
        \/ Deliver(t, TRUE)
        \/ Finally(t, "none")
        \/ Finish(t)

SpecConc == Init /\ [][NextConc]_vars

\* ------------------------------------------------- deletions that fail
\* SpecUnlink follows one worker thread whose os.unlink calls may raise. The
\* provider answers with a long transcript; downloads, ffmpeg and the message
\* before recognition may fail.
NextUnlink ==
    \/ \E kind \in {"audio", "video"} : Start(Worker, kind, FALSE)
    \/ Reply(Worker, TRUE)
    \/ \E outcome \in DownloadOutcomes, n \in Names \cup {0} : Download(Worker, outcome, n)
    \/ EditFetchFailed(Worker, TRUE)
    \/ EditStage2(Worker, TRUE)
    \/ \E outcome \in FfmpegOutcomes, wrote \in BOOLEAN : Transcode(Worker, outcome, wrote)
    \/ EditTranscodeFailed(Worker, TRUE)
    \/ \E f \in UnlinkCodes : CleanupEarly(Worker, f)
    \/ \E ok \in BOOLEAN : EditStage3(Worker, ok)
    \/ Recognize(Worker, Response("text", MaxTextLen, 0), 1)
    \/ Deliver(Worker, TRUE)
    \/ Except(Worker, TRUE)
    \/ \E f \in UnlinkCodes : Finally(Worker, f)
    \/ Finish(Worker)

SpecUnlink == Init /\ [][NextUnlink]_vars

\* ---------------------------------------------------------------- claims
InSeq(x, seq) == \E i \in DOMAIN seq : seq[i] = x

\* the provider replies one request has received, in order
Seen(r) == SelectSeq(r.inputs, LAMBDA e : e.tag = "provider")

\* recognize_speech has returned
Recognized(r) == r.pc = "deliver" \/ InSeq("deliver", r.stages)

Owned(t) == {p \in Paths : disk[p] = t}

\* C1: when a handler exits, no temporary file created during that request
\* (the downloaded file or its '<input>.wav') still exists on disk.
C1_NoTempFileLeft ==
    \A t \in Threads : req[t].pc = "done" => Owned(t) = {}

\* C2: when a step of a handler raised an exception after a temporary file
\* was created, cleanup_files has been run on every file created so far by
\* the time the handler exits.
C2_CleanupAfterException ==
    \A t \in Threads :
        req[t].pc = "done" /\ req[t].raisedAfterFile => req[t].created \subseteq req[t].cleaned

\* C3: download_file leaves exactly one local file when it returns a name and
\* none when it returns None.
C3_DownloadLeavesFileIffSuccess ==
    \A t \in Threads :
        req[t].pc \in {"edit_fetch_failed", "edit_stage2"} =>
            IF req[t].temp_file = None THEN Owned(t) = {}
            ELSE Owned(t) = {req[t].temp_file}


\* the languages recognize_with_whisper_free was called with, in call order
WhisperLangs(r) ==
    LET w == SelectSeq(r.invoked, LAMBDA c : c[1] = "whisper")
    IN [k \in DOMAIN w |-> w[k][2]]

\* C4: within one call of recognize_speech no (provider, language) pair is
\* invoked twice, the entries are tried in the configured order (auto, uk, ru,
\* en) and nothing is invoked after the first accepted entry.
C4_CascadeOrder ==
    \A t \in Threads :
        LET r == req[t]
            w == WhisperLangs(r)
        IN /\ \A i, j \in DOMAIN r.invoked : i # j => r.invoked[i] # r.invoked[j]
           /\ Len(w) <= Len(Order) /\ w = SubSeq(Order, 1, Len(w))
           /\ \A i \in DOMAIN r.invoked :
                  r.invoked[i][1] # "whisper" =>
                      i > 1 /\ r.invoked[i - 1] = <<"whisper", r.invoked[i][2]>>
           /\ r.accepted # 0 =>
                  /\ Len(w) = r.accepted
                  /\ r.invoked[Len(r.invoked)][2] = Order[r.accepted]

\* C4 witness: the automatic attempt was rejected, uk was accepted, and
\* recognize_speech returned without calling ru or en
C4_Witness ==
    \E t \in Threads :
        /\ Recognized(req[t])
        /\ req[t].accepted = 2
        /\ WhisperLangs(req[t]) = <<"auto", "uk">>

\* every provider reply of the request was a transient failure or an empty text
AllSoft(r) ==
    /\ Seen(r) # <<>>
    /\ \A i \in DOMAIN Seen(r) :
           \/ Seen(r)[i].resp.kind = "status503"
           \/ Seen(r)[i].resp.kind = "text" /\ Seen(r)[i].resp.core = 0

\* C5: if every remote provider call of a request failed transiently or
\* returned empty text, no recognition result is delivered as a success.
C5_AllSoftFailuresReported ==
    \A t \in Threads :
        AllSoft(req[t]) => req[t].delivered.msg # "result"

\* C6: recognize_speech returns an empty mapping exactly when no cascade entry
\* was accepted, and the handler then reports the recognition-failed message.
C6_EmptyMappingWhenNothingAccepted ==
    \A t \in Threads :
        Recognized(req[t]) =>
            /\ (req[t].results = <<>>) <=> (req[t].accepted = 0)
            /\ req[t].accepted = 0 /\ req[t].delivered.msg \in {"result", "not_recognized"}
                   => req[t].delivered.msg = "not_recognized"

\* C7: if download_file returns None neither transcoding nor recognition is
\* started; if the transcoder returns None recognize_speech is never invoked
\* and no recognition result is delivered.
C7_StageFailureHalts ==
    \A t \in Threads :
        LET r == req[t] IN
        /\ Len(r.outs) >= 1 /\ r.outs[1] = "none" =>
               /\ r.stages = <<"fetch">>
               /\ r.invoked = <<>>
               /\ r.delivered.msg \in {"none", "fetch_failed", "error"}
        /\ Len(r.outs) >= 2 /\ r.outs[2] = "none" =>
               /\ r.stages = <<"fetch", "transcode">>
               /\ r.invoked = <<>>
               /\ r.delivered.msg \in {"none", "convert_failed", "error"}

\* C7 witness: a handler has exited after the transcoder returned None and
\* the conversion failure was reported
C7_Witness ==
    \E t \in Threads :
        /\ req[t].pc = "done"
        /\ req[t].outs = <<"ok", "none">>
        /\ req[t].delivered.msg = "convert_failed"

\* C8: a transcript whose trimmed length does not exceed the acceptance
\* threshold (10) is never the text of the single entry recognize_speech returns.
C8_NoShortSoleResult ==
    \A t \in Threads :
        Recognized(req[t]) /\ Len(req[t].results) = 1 =>
            ~(TextLen(Strip(req[t].results[1][2])) <= 10)

\* C8 witness: a provider answered with a transcript of trimmed length 6..10
\* and recognize_speech has returned
C8_Witness ==
    \E t \in Threads :
        /\ Recognized(req[t])
        /\ \E i \in DOMAIN Seen(req[t]) :
               /\ Seen(req[t])[i].resp.kind = "text"
               /\ Seen(req[t])[i].resp.core \in 6..10

\* C9: a clip shorter than the minimum duration fails at the transcoding
\* stage: the transcoder returns no asset and recognize_speech is not invoked.
C9_ShortClipFailsTranscoding ==
    \A t \in Threads :
        req[t].short =>
            /\ ~InSeq("recognize", req[t].stages)
            /\ Len(req[t].outs) >= 2 => req[t].outs[2] = "none"

\* C10: two runs of the pipeline on the same message that are answered
\* identically deliver the same result.
C10_SameInputsSameOutcome ==
    /\ req[1].pc = "done"
    /\ req[2].pc = "done"
    /\ req[1].inputs = req[2].inputs
    => /\ req[1].delivered = req[2].delivered
       /\ req[1].escaped = req[2].escaped


\* a request is being handled by thread t
InFlight(t) == req[t].pc \notin {"idle", "done"}

\* the files a request has written and not yet passed to cleanup_files
Live(t) == req[t].created \ req[t].cleaned

\* C11: when requests are handled concurrently no temporary file path is in
\* use by two requests at once, and no file a request in flight has written
\* and still needs is deleted or overwritten by another request.
C11_NoSharedTempFiles ==
    /\ \A s, t \in Threads :
           InFlight(s) /\ InFlight(t) /\ s # t => Live(s) \cap Live(t) = {}
    /\ \A t \in Threads :
           InFlight(t) => \A p \in Live(t) : disk[p] = t


\* the provider answered entry i with an empty or too short transcript
TooShortReply(e) == e.resp.kind = "text" /\ e.resp.core <= 10

\* C12: an entry whose provider returns an empty or too short transcript is
\* not accepted and the cascade advances; when the first entry is empty and
\* the second returns a long text, the result is keyed to the second entry
\* and no third entry is tried.
C12_EmptyEntryAdvances ==
    \A t \in Threads :
        LET r == req[t]
            seen == Seen(r)
        IN /\ \A i \in DOMAIN seen : TooShortReply(seen[i]) => r.accepted # i
           /\ /\ Len(seen) >= 2
              /\ TooShortReply(seen[1])
              /\ seen[2].resp.kind = "text" /\ seen[2].resp.core > 10
              => /\ r.accepted = 2
                 /\ Len(seen) = 2
                 /\ r.results = <<(<<LanguageName(Order[2]), RemoteText(seen[2].resp.core, 0)>>)>>


\* a provider call that failed hard: non-2xx status, malformed or unreadable
\* response, timeout
HardFailure(e) ==
    e.resp.kind \in {"status401", "status503", "badjson", "nokey", "timeout", "openfail"}

\* C14: a hard failure of one provider call never aborts the cascade:
\* recognize_speech goes on and returns normally, and the next entry is
\* tried unless an entry up to the failed one was accepted.
C14_HardFailureDoesNotAbort ==
    \A t \in Threads :
        LET r == req[t]
            seen == Seen(r)
        IN /\ seen # <<>> => r.pc = "recognize" \/ Recognized(r)
           /\ \A i \in DOMAIN seen :
                  HardFailure(seen[i]) =>
                      \/ r.accepted \in 1..i
                      \/ Len(seen) > i
                      \/ r.pc = "recognize" /\ r.lang_idx = i + 1
                      \/ i = Len(Order) /\ Recognized(r)

\* C14 witness: the automatic call failed hard, the cascade went on to the
\* next entry and recognize_speech has returned
C14_Witness ==
    \E t \in Threads :
        /\ Recognized(req[t])
        /\ Len(Seen(req[t])) >= 2
        /\ HardFailure(Seen(req[t])[1])
        /\ req[t].accepted = 2


\* the stages of one request in the order the handlers call them
StageOrder == <<"fetch", "transcode", "recognize", "deliver">>

\* C15: the stages started within one request are a prefix of fetch,
\* transcode, recognize, deliver (so none is started twice), and a stage is
\* started only after the previous one returned its asset: the downloaded
\* file before transcoding, the transcoded file before recognition, the
\* results before delivery; the asset is on disk when the next stage starts.
C15_StagesInOrder ==
    \A t \in Threads :
        LET r == req[t] IN
        /\ Len(r.stages) <= Len(StageOrder)
        /\ r.stages = SubSeq(StageOrder, 1, Len(r.stages))
        /\ Len(r.stages) >= 2 => r.outs[1] = "ok" /\ r.temp_file \in Paths
        /\ Len(r.stages) >= 3 =>
               /\ Len(r.outs) = 2 /\ r.outs[2] = "ok" /\ r.wav_file \in Paths
        /\ Len(r.stages) >= 4 => r.results # <<>>
        /\ r.pc = "transcode" => Exists(r.temp_file, disk)
        /\ r.pc = "recognize" /\ r.lang_idx = 1 => Exists(r.wav_file, disk)

\* C15 witness: a request that went through all four stages and finished
C15_Witness ==
    \E t \in Threads : req[t].pc = "done" /\ req[t].stages = StageOrder


\* the paths one cleanup_files call was given
Given(call) == {call.files[i] : i \in DOMAIN call.files} \cap Paths

\* cleanup_files does not raise and goes through its whole argument list:
\* the handler goes on as if nothing had failed, and every file that was
\* there and whose unlink did not fail is removed, whatever failed before it
CleanupGoesOn(r) ==
    /\ r.calls # <<>> => r.pc \in {"finally", "done"}
    /\ r.calls # <<>> /\ r.pc = "done" => r.escaped = r.exc
    /\ \A k \in DOMAIN r.calls :
           /\ r.calls[k].gone = r.calls[k].present \ r.calls[k].failed
           /\ k = Len(r.calls) => \A p \in r.calls[k].gone : disk[p] = Absent

AllMessagesSent(r) ==
    \A i \in DOMAIN r.inputs : r.inputs[i].tag = "message" => r.inputs[i].flag

\* C17: every request whose external calls all return ends in a terminal
\* state (a result delivered or a failure reported) followed by cleanup, after
\* at most four cascade entries. Every step of a handler ends with the return
\* of its external call, so a handler that has returned is checked here: it
\* has reported a result or a failure, cleanup_files was entered after that,
\* and no more than four provider calls were made.
C17_EndsReportedThenCleaned ==
    \A t \in Threads :
        LET r == req[t] IN
        /\ Len(Seen(r)) <= Len(Order)
        /\ r.pc = "done" /\ AllMessagesSent(r) =>
               /\ r.delivered # StatusMessage("none")
               /\ r.calls # <<>>
               /\ r.calls[Len(r.calls)].files = <<r.temp_file, r.wav_file>>

\* C18: when the download fails, the handler reports the fetch failure and
\* returns normally: its finally block completes without raising and no
\* exception propagates to the dispatcher, for video notes and for audio.
C18_FetchFailureReturnsNormally ==
    \A t \in Threads :
        LET r == req[t] IN
        r.pc = "done" /\ r.outs = <<"none">> /\ r.delivered = StatusMessage("fetch_failed")
            => ~r.escaped


\* the provider answered HTTP 200 with a transcript of more than 10 trimmed
\* characters
LongReply(e) == e.resp.kind = "text" /\ e.resp.core > 10

\* C19 (as stated): if the provider returns HTTP 200 with a transcript longer
\* than 10 trimmed characters for a cascade entry, the result of
\* recognize_speech is exactly one entry, labelled with that entry's label,
\* whose text is exactly the transcript the provider sent.
C19_ExactRemoteTranscript ==
    \A t \in Threads :
        LET r == req[t]
            seen == Seen(r)
        IN \A i \in DOMAIN seen :
               LongReply(seen[i]) =>
                   r.results = <<(<<LanguageName(Order[i]),
                                    RemoteText(seen[i].resp.core, seen[i].resp.pad)>>)>>

\* C19 (amended): if the provider returns HTTP 200 with a transcript longer
\* than 10 trimmed characters for a cascade entry, the result of
\* recognize_speech is exactly one entry, labelled with that entry's label,
\* whose text is that transcript with its surrounding whitespace stripped; no
\* canned text replaces it and the cascade stops at that entry.
C19_StrippedRemoteTranscript ==
    \A t \in Threads :
        LET r == req[t]
            seen == Seen(r)
        IN \A i \in DOMAIN seen :
               LongReply(seen[i]) =>
                   /\ r.results = <<(<<LanguageName(Order[i]),
                                       Strip(RemoteText(seen[i].resp.core, seen[i].resp.pad))>>)>>
                   /\ r.accepted = i
                   /\ i = Len(seen)

\* C19 witness: recognize_speech returned after a language-specific call
\* got a long transcript with surrounding whitespace
C19_Witness ==
    \E t \in Threads :
        /\ Recognized(req[t])
        /\ \E i \in DOMAIN Seen(req[t]) :
               /\ i >= 2
               /\ LongReply(Seen(req[t])[i])
               /\ Seen(req[t])[i].resp.pad > 0

====
